---- MODULE Spec2Model ----
(***************************************************************************)
(* lintnet: the module-line parser of pkg/config, the rule evaluator and   *)
(* the lint controller of pkg/controller/lint.                             *)
(*                                                                         *)
(* Text is modelled as a sequence of one-character strings, so that the    *)
(* string functions of the source (TrimSpace, TrimPrefix, Split, Join,     *)
(* Cut, HasSuffix, the regular expression) are computed, not assumed.      *)
(***************************************************************************)
EXTENDS Integers, Sequences, FiniteSets, TLC

VARIABLES
    \* ---- pkg/config: ParseModuleLine -------------------------------------
    ppc,        \* position of the caller of ParseModuleLine
    shape,      \* the pieces the input line was written from
    lineIn,     \* the line handed to ParseModuleLine
    parseOut,   \* what ParseModuleLine returned for lineIn
    prevLine,   \* the line of the previous call
    prevOut,    \* what ParseModuleLine returned for prevLine
    \* ---- pkg/controller/lint: Controller.Lint ------------------------------
    entry,      \* the entry point this run exercises: "Lint" or "Evaluates"
    pc,         \* position inside Controller.Lint
    param,      \* *ParamLint: ErrorLevel and FilePaths
    passed,     \* the steps of Lint that have succeeded so far
    targets,    \* the targets found by findFiles (and filtered)
    errLevel,   \* the level returned by getErrorLevel
    tIdx,       \* getResults: how many targets have been linted
    results,    \* getResults: the result map (nil until it is made)
    lintErr,    \* the error Lint returned ("" while running or on success)
    failedAt,   \* the step whose error Lint returned
    engineCalls,\* every evaluation of a (rule, data file) pair, in order
    decodeLog,  \* per linted target, whether each data file could be read:
                \* <<target, file, ok>>
    parseLog,   \* the lint files that did not parse: <<target, path>>
    outputCalled, \* whether c.Output was reached
    \* ---- pkg/controller/lint: LintFileParser / LintFileEvaluator -----------
    evpc,       \* position of the caller of Parses and Evaluates
    evLintFiles,\* the []*config.LintFile handed to Parses
    evTla,      \* the *TopLevelArgment handed to Evaluates
    evNodes,    \* the []*domain.Node returned by Parses
    evErr,      \* the error returned by Parses
    evArgs,     \* the top-level argument handed to the engine, per rule
    evResp,     \* what marshalling and the engine answered, per rule
    evResults   \* the []*domain.Result returned by Evaluates

pvars == <<ppc, shape, lineIn, parseOut, prevLine, prevOut>>
lvars == <<pc, param, passed, targets, errLevel, tIdx, results, lintErr,
           failedAt, engineCalls, decodeLog, parseLog, outputCalled>>
evars == <<evpc, evLintFiles, evTla, evNodes, evErr, evArgs, evResp, evResults>>
vars == <<pvars, entry, lvars, evars>>

-----------------------------------------------------------------------------
(* Bounds of the model. *)

\* The longest <path> of a module line, in '/'-separated segments.
MaxPathSegs == 2

\* The most targets a configuration declares.
MaxTargets == 2

\* The most lint files handed to one call of Parses.
MaxLintFiles == 2

-----------------------------------------------------------------------------
(* Text helpers: Go's strings package on sequences of characters. *)

Rep(c, n) == [i \in 1..n |-> c]

WhiteSpace == {" ", "\t", "\n", "\r"}

RECURSIVE TrimLeft(_)
TrimLeft(s) ==
    IF Len(s) > 0 /\ Head(s) \in WhiteSpace THEN TrimLeft(Tail(s)) ELSE s

RECURSIVE TrimRight(_)
TrimRight(s) ==
    IF Len(s) > 0 /\ s[Len(s)] \in WhiteSpace
    THEN TrimRight(SubSeq(s, 1, Len(s) - 1)) ELSE s

\* strings.TrimSpace
TrimSpace(s) == TrimRight(TrimLeft(s))

\* strings.HasPrefix
HasPrefix(s, p) == Len(s) >= Len(p) /\ SubSeq(s, 1, Len(p)) = p

\* strings.HasSuffix
HasSuffix(s, p) ==
    Len(s) >= Len(p) /\ SubSeq(s, Len(s) - Len(p) + 1, Len(s)) = p

\* strings.TrimPrefix
TrimPrefix(s, p) == IF HasPrefix(s, p) THEN SubSeq(s, Len(p) + 1, Len(s)) ELSE s

\* strings.IndexByte: the first position of c in s, 0 when there is none.
IndexOf(s, c) ==
    IF \E i \in 1..Len(s) : s[i] = c
    THEN CHOOSE i \in 1..Len(s) : s[i] = c /\ \A j \in 1..(i - 1) : s[j] # c
    ELSE 0

\* strings.Cut
Cut(s, c) ==
    LET i == IndexOf(s, c)
    IN  IF i = 0
        THEN [before |-> s, after |-> <<>>, found |-> FALSE]
        ELSE [before |-> SubSeq(s, 1, i - 1),
              after  |-> SubSeq(s, i + 1, Len(s)),
              found  |-> TRUE]

\* strings.Split(s, c): always at least one element.
RECURSIVE Split(_, _)
Split(s, c) ==
    LET i == IndexOf(s, c)
    IN  IF i = 0 THEN <<s>>
        ELSE <<SubSeq(s, 1, i - 1)>> \o Split(SubSeq(s, i + 1, Len(s)), c)

\* strings.Join(elems, c)
RECURSIVE Join(_, _)
Join(elems, c) ==
    IF Len(elems) = 0 THEN <<>>
    ELSE IF Len(elems) = 1 THEN elems[1]
    ELSE elems[1] \o <<c>> \o Join(Tail(elems), c)

-----------------------------------------------------------------------------
(* pkg/config/module.go *)

GithubCom == <<"g", "i", "t", "h", "u", "b", ".", "c", "o", "m">>

HexChars ==
    {"0", "1", "2", "3", "4", "5", "6", "7", "8", "9",
     "a", "b", "c", "d", "e", "f", "A", "B", "C", "D", "E", "F"}

\* The repetition count of fullCommitHashPattern.
HashLen == 40

AllHex(s) == \A i \in 1..Len(s) : s[i] \in HexChars

\* fullCommitHashPattern.MatchString(ref): the pattern has no anchors, so it
\* matches when some HashLen consecutive characters of ref are all hex.
FullCommitHashPattern(ref) ==
    \E i \in 1..(Len(ref) - HashLen + 1) : AllHex(SubSeq(ref, i, i + HashLen - 1))

ErrNone == ""
ErrLineInvalid == "line is invalid"
ErrHost == "module must start with 'github.com/'"
ErrRefRequired == "ref is required"
ErrRef == "ref must be full commit hash"

\* validateRef
validateRef(ref) == IF FullCommitHashPattern(ref) THEN ErrNone ELSE ErrRef

\* The nil *ModuleGlob returned beside an error.
NilModuleGlob ==
    [nil |-> TRUE, ID |-> <<>>, SlashPath |-> <<>>, Excluded |-> FALSE,
     Archive |-> [Type |-> "", Host |-> <<>>, RepoOwner |-> <<>>,
                  RepoName |-> <<>>, Ref |-> <<>>, Tag |-> <<>>]]

Failed(e) == [mg |-> NilModuleGlob, err |-> e]

\* A faulty variant of ParseModuleLine: the '!' is recognised but left in the line.
ParseModuleLineKeepBang(text) ==
    LET line == TrimSpace(text)
        excluded == HasPrefix(line, <<"!">>)
        elems == Split(TrimSpace(TrimPrefix(line, <<"!">>)), "/")
        rest == Cut(Join(SubSeq(elems, 4, Len(elems)), "/"), "@")
        rt == Cut(rest.after, ":")
    IN  IF Len(elems) < 4 THEN Failed(ErrLineInvalid)
        ELSE IF elems[1] # GithubCom THEN Failed(ErrHost)
        ELSE IF ~rest.found THEN Failed(ErrRefRequired)
        ELSE IF validateRef(rt.before) # ErrNone THEN Failed(validateRef(rt.before))
        ELSE [err |-> ErrNone,
              mg |-> [nil |-> FALSE, ID |-> line,
                      SlashPath |-> Join(SubSeq(elems, 1, 3) \o <<rt.before, rest.before>>, "/"),
                      Excluded |-> excluded,
                      Archive |-> [Type |-> "github", Host |-> GithubCom,
                                   RepoOwner |-> elems[2], RepoName |-> elems[3],
                                   Ref |-> rt.before, Tag |-> rt.after]]]

\* A faulty variant of ParseModuleLine: the tag is cut off the path, not off the ref.
ParseModuleLineSwapped(text) ==
    LET line == TrimSpace(TrimPrefix(TrimSpace(text), <<"!">>))
        elems == Split(line, "/")
        rest == Cut(Join(SubSeq(elems, 4, Len(elems)), "/"), "@")
        rt == Cut(rest.after, ":")
    IN  IF Len(elems) < 4 THEN Failed(ErrLineInvalid)
        ELSE IF elems[1] # GithubCom THEN Failed(ErrHost)
        ELSE IF ~rest.found THEN Failed(ErrRefRequired)
        ELSE IF validateRef(rt.before) # ErrNone THEN Failed(validateRef(rt.before))
        ELSE [err |-> ErrNone,
              mg |-> [nil |-> FALSE, ID |-> line,
                      SlashPath |-> Join(SubSeq(elems, 1, 3) \o <<rest.before, rt.before>>, "/"),
                      Excluded |-> HasPrefix(TrimSpace(text), <<"!">>),
                      Archive |-> [Type |-> "github", Host |-> GithubCom,
                                   RepoOwner |-> elems[3], RepoName |-> elems[2],
                                   Ref |-> rt.before, Tag |-> rt.after]]]

\* ParseModuleLine(line): the *ModuleGlob and the error.
ParseModuleLine(text) ==
    LET line1 == TrimSpace(text)
        l == TrimPrefix(line1, <<"!">>)
        excluded == l # line1
        line == IF excluded THEN TrimSpace(l) ELSE line1
        elems == Split(line, "/")
        pathAndRefAndTag == Join(SubSeq(elems, 4, Len(elems)), "/")
        c1 == Cut(pathAndRefAndTag, "@")
        path == c1.before
        refAndTag == c1.after
        c2 == Cut(refAndTag, ":")
        ref == c2.before
        tag == c2.after
    IN  IF Len(elems) < 4 THEN Failed(ErrLineInvalid)
        ELSE IF elems[1] # GithubCom THEN Failed(ErrHost)
        ELSE IF ~c1.found THEN Failed(ErrRefRequired)
        ELSE IF validateRef(ref) # ErrNone THEN Failed(validateRef(ref))
        ELSE [err |-> ErrNone,
              mg |-> [nil |-> FALSE,
                      ID |-> line,
                      SlashPath |-> Join(SubSeq(elems, 1, 3) \o <<ref, path>>, "/"),
                      Excluded |-> excluded,
                      Archive |-> [Type |-> "github",
                                   Host |-> GithubCom,
                                   RepoOwner |-> elems[2],
                                   RepoName |-> elems[3],
                                   Ref |-> ref,
                                   Tag |-> tag]]]

-----------------------------------------------------------------------------
(* The module lines the parser is run on. *)

GitlabCom == <<"g", "i", "t", "l", "a", "b", ".", "c", "o", "m">>
Owner == <<"o", "w">>
Repo == <<"r", "e">>
SegChars == <<"p", "q", "s", "t", "u">>

\* A 40-character hash that uses digits and both letter cases.
MixedHash == <<"0", "9", "a", "F">> \o Rep("c", HashLen - 4)

Refs ==
    {MixedHash,
     Rep("a", HashLen),
     Rep("a", HashLen - 1),
     Rep("a", HashLen + 1),
     <<"g">> \o Rep("a", HashLen - 1),
     <<"v">> \o Rep("a", HashLen),
     Rep("a", HashLen) \o <<"-", "x">>,
     Rep("a", 20) \o <<"-">> \o Rep("a", HashLen - 20),
     <<"m", "a", "i", "n">>}

Tags == {<<>>, <<"v", "1">>, <<"v", ":", "1">>}

Prefixes == {<<>>, <<"!">>, <<" ">>, <<"!", " ">>, <<" ", "!">>}

Suffixes == {<<>>, <<" ">>}

Shapes ==
    [prefix : Prefixes, host : {GithubCom, GitlabCom}, segs : 0..MaxPathSegs,
     at : BOOLEAN, ref : Refs, hasTag : BOOLEAN, tag : Tags, suffix : Suffixes]

\* Shapes that differ only in pieces they do not use are the same line.
Canonical(s) ==
    /\ (~s.at => s.ref = MixedHash /\ ~s.hasTag)
    /\ (~s.hasTag => s.tag = <<>>)
    /\ (s.hasTag => s.tag # <<>>)

PathOf(s) == Join([i \in 1..s.segs |-> <<SegChars[i]>>], "/")

LineOf(s) ==
    s.prefix \o s.host \o <<"/">> \o Owner \o <<"/">> \o Repo
    \o (IF s.segs > 0 THEN <<"/">> \o PathOf(s) ELSE <<>>)
    \o (IF s.at THEN <<"@">> \o s.ref ELSE <<>>)
    \o (IF s.hasTag THEN <<":">> \o s.tag ELSE <<>>)
    \o s.suffix

NoOut == Failed("not called")

-----------------------------------------------------------------------------
(* pkg/controller/lint: values. *)

\* A map[string]any: nil, or a set of <<key, value>> pairs.
NilMap == [nil |-> TRUE, kv |-> {}]
EmptyMap == [nil |-> FALSE, kv |-> {}]
SomeMap == [nil |-> FALSE, kv |-> {<<"limit", 3>>}]

JsonnetExt == <<".", "j", "s", "o", "n", "n", "e", "t">>
CombineSuffix == <<"_", "c", "o", "m", "b", "i", "n", "e">> \o JsonnetExt

\* The lint files of the run. A lint file carries the fields of both LintFile
\* types of the source: Path/ModulePath/Param and Path/ID/Config.
LintFileA ==
    [ID |-> <<"a">>, Path |-> <<"a">> \o JsonnetExt, ModulePath |-> <<>>,
     Config |-> NilMap, Param |-> NilMap]
LintFileB ==
    [ID |-> <<"m", "/", "b">>, Path |-> <<"b">> \o CombineSuffix,
     ModulePath |-> <<"m", "/", "b">>, Config |-> SomeMap, Param |-> SomeMap]
LintFileC ==
    [ID |-> <<"c">>, Path |-> <<"c", "o", "m", "b", "i", "n", "e">> \o JsonnetExt,
     ModulePath |-> <<>>, Config |-> EmptyMap, Param |-> EmptyMap]

LintFiles == {LintFileA, LintFileB, LintFileC}

FileX == "x.json"
FileY == "y.yaml"
DataFiles == {FileX, FileY}

\* A decoded data value: nil, or the value v.
NilData == [nil |-> TRUE, v |-> 0]
DataOf(file) == [nil |-> FALSE, v |-> IF file = FileX THEN 1 ELSE 2]

\* The combined data: nil, or the list of the data values.
NilCombined == [nil |-> TRUE, list |-> <<>>]
CombinedOf(files) ==
    [nil |-> FALSE, list |-> [i \in 1..Len(files) |-> DataOf(files[i])]]

Range(f) == {f[i] : i \in DOMAIN f}

-----------------------------------------------------------------------------
(* The engine's output: a JSON document, by its structure. *)

FAbsent == [t |-> "absent", s |-> ""]
FStr(s) == [t |-> "string", s |-> s]
FNum == [t |-> "number", s |-> ""]

ElemObject(m, l) == [k |-> "object", message |-> m, level |-> l]
ElemNull == [k |-> "null", message |-> FAbsent, level |-> FAbsent]
ElemNumber == [k |-> "number", message |-> FAbsent, level |-> FAbsent]

NoOutput == [k |-> "empty", elems |-> <<>>]      \* the string ""
DocInvalid == [k |-> "invalid", elems |-> <<>>]  \* not JSON
DocNull == [k |-> "null", elems |-> <<>>]        \* null
DocObject == [k |-> "object", elems |-> <<>>]    \* {"failed": true}
DocString == [k |-> "string", elems |-> <<>>]    \* "ok"
DocEmpty == [k |-> "array", elems |-> <<>>]      \* []
DocFindings ==                                   \* two finding objects
    [k |-> "array",
     elems |-> <<ElemObject(FStr("too long"), FStr("warn")),
                 ElemObject(FStr("missing"), FAbsent)>>]
DocArrNumber == [k |-> "array", elems |-> <<ElemNumber>>]                  \* [1]
DocArrNull == [k |-> "array", elems |-> <<ElemNull>>]                      \* [null]
DocBadMessage == [k |-> "array", elems |-> <<ElemObject(FNum, FAbsent)>>]  \* [{"message": 1}]
DocNoMessage == [k |-> "array", elems |-> <<ElemObject(FAbsent, FStr("info"))>>]

Docs ==
    {DocInvalid, DocNull, DocObject, DocString, DocEmpty, DocFindings,
     DocArrNumber, DocArrNull, DocBadMessage, DocNoMessage}

\* What one evaluation meets: json.Marshal of the argument fails, the engine
\* fails, or the engine returns a document.
RespMarshalErr == [k |-> "marshal_error", doc |-> NoOutput]
RespEvalErr == [k |-> "eval_error", doc |-> NoOutput]
RespOk(doc) == [k |-> "ok", doc |-> doc]

EvalResponses == {RespMarshalErr, RespEvalErr} \cup {RespOk(d) : d \in Docs}
LintResponses == {RespMarshalErr, RespEvalErr, RespOk(DocFindings), RespOk(DocObject)}

ErrMarshal == "marshal a top level argument as JSON"
ErrEvaluate == "evaluate a lint file as Jsonnet"
ErrEngine == "RUNTIME ERROR"
ErrUnmarshal == "unmarshal the result as JSON"
ErrReadJsonnet == "read a jsonnet file"
ErrDataFile == "parse a data file"

-----------------------------------------------------------------------------
(* encoding/json on a document. *)

\* A value of type any: nil, or the decoded document.
NilAny == [nil |-> TRUE, v |-> NoOutput]

\* json.Unmarshal(result, &rs) with rs of type any.
UnmarshalAny(doc) ==
    IF doc.k \in {"invalid", "empty"} THEN [a |-> NilAny, err |-> ErrUnmarshal]
    ELSE IF doc.k = "null" THEN [a |-> NilAny, err |-> ErrNone]
    ELSE [a |-> [nil |-> FALSE, v |-> doc], err |-> ErrNone]

\* A []*JsonnetResult: nil, or the list of the elements.
NilFindings == [nil |-> TRUE, list |-> <<>>]
NilFinding == [nil |-> TRUE, Message |-> "", Level |-> ""]

\* One element decoded into a *JsonnetResult: null is a nil pointer, an absent
\* field keeps its zero value.
JsonnetResult(e) ==
    IF e.k = "null" THEN NilFinding
    ELSE [nil |-> FALSE, Message |-> e.message.s, Level |-> e.level.s]

\* Whether json.Unmarshal can store the element in a *JsonnetResult.
ElemDecodes(e) ==
    \/ e.k = "null"
    \/ /\ e.k = "object"
       /\ e.message.t \in {"absent", "string"}
       /\ e.level.t \in {"absent", "string"}

\* json.Unmarshal(result, &out) with out := []*JsonnetResult{}.
UnmarshalFindings(doc) ==
    IF doc.k \in {"invalid", "empty"} THEN [out |-> NilFindings, err |-> ErrUnmarshal]
    ELSE IF doc.k = "null" THEN [out |-> NilFindings, err |-> ErrNone]
    ELSE IF doc.k # "array" THEN [out |-> NilFindings, err |-> ErrUnmarshal]
    ELSE IF \E i \in 1..Len(doc.elems) : ~ElemDecodes(doc.elems[i])
         THEN [out |-> NilFindings, err |-> ErrUnmarshal]
    ELSE [out |-> [nil |-> FALSE,
                   list |-> [i \in 1..Len(doc.elems) |-> JsonnetResult(doc.elems[i])]],
          err |-> ErrNone]

\* A faulty variant of parseResult: a failed second decode drops the first decode too.
parseResultDropsValue(result) ==
    IF UnmarshalAny(result).err # ErrNone \/ UnmarshalFindings(result).err # ErrNone
    THEN [rs |-> NilFindings, a |-> NilAny, err |-> ErrUnmarshal]
    ELSE [rs |-> UnmarshalFindings(result).out, a |-> UnmarshalAny(result).a,
          err |-> ErrNone]

\* parseResult: the findings, the untyped value and the error.
parseResult(result) ==
    LET first == UnmarshalAny(result)
        second == UnmarshalFindings(result)
    IN  IF first.err # ErrNone
        THEN [rs |-> NilFindings, a |-> NilAny, err |-> ErrUnmarshal]
        ELSE IF second.err # ErrNone
        THEN [rs |-> NilFindings, a |-> first.a, err |-> ErrUnmarshal]
        ELSE [rs |-> second.out, a |-> first.a, err |-> ErrNone]

\* A *domain.Result.
Result(key, rs, out, a, err) ==
    [LintFile |-> key, RawResult |-> rs, RawOutput |-> out, Interface |-> a,
     Error |-> err]

-----------------------------------------------------------------------------
(* LintFileParser and LintFileEvaluator. *)

\* LintFileParser.Parse: the node, or the error of ReadToNode.
Parse(lintFile, unparsable) ==
    IF lintFile \in unparsable
    THEN [nil |-> TRUE, err |-> ErrReadJsonnet, Node |-> <<>>, Key |-> <<>>,
          Config |-> NilMap, Combine |-> FALSE]
    ELSE [nil |-> FALSE, err |-> ErrNone,
          Node |-> lintFile.Path,
          Key |-> lintFile.ID,
          Config |-> lintFile.Config,
          Combine |-> HasSuffix(lintFile.Path, CombineSuffix)]

\* LintFileParser.Parses: every node, or the first error and no node.
RECURSIVE Parses(_, _)
Parses(lintFiles, unparsable) ==
    IF lintFiles = <<>> THEN [nodes |-> <<>>, err |-> ErrNone]
    ELSE LET node == Parse(Head(lintFiles), unparsable)
             rest == Parses(Tail(lintFiles), unparsable)
         IN  IF node.err # ErrNone THEN [nodes |-> <<>>, err |-> node.err]
             ELSE IF rest.err # ErrNone THEN [nodes |-> <<>>, err |-> rest.err]
             ELSE [nodes |-> <<node>> \o rest.nodes, err |-> ErrNone]

\* The argument Evaluates builds for one lint file, as Evaluate marshals it.
EvaluateArg(tla, lintFile) ==
    [Data |-> tla.Data,
     CombinedData |-> tla.CombinedData,
     Config |-> IF lintFile.Config.nil THEN EmptyMap ELSE lintFile.Config]

\* LintFileEvaluator.Evaluate: the output string, or the error.
Evaluate(tla, lintFile, resp) ==
    IF resp.k = "marshal_error" THEN [s |-> NoOutput, err |-> ErrMarshal]
    ELSE IF resp.k = "eval_error" THEN [s |-> NoOutput, err |-> ErrEvaluate]
    ELSE [s |-> resp.doc, err |-> ErrNone]

\* The result Evaluates records for one lint file.
EvaluatesOne(tla, lintFile, resp) ==
    LET e == Evaluate(EvaluateArg(tla, lintFile), lintFile.Node, resp)
        p == parseResult(e.s)
    IN  IF e.err # ErrNone
        THEN Result(lintFile.Key, NilFindings, NoOutput, NilAny, e.err)
        ELSE Result(lintFile.Key, p.rs, e.s, p.a, p.err)

\* A faulty variant of Evaluates: the loop ends at the first failed evaluation, and the
\* lint files after it get no result.
EvaluatesStopping(tla, lintFiles, resp) ==
    LET failedAtOrBefore(i) ==
            \E j \in 1..i : Evaluate(EvaluateArg(tla, lintFiles[j]), lintFiles[j].Node, resp[j]).err # ErrNone
    IN  [i \in {j \in 1..Len(lintFiles) : j = 1 \/ ~failedAtOrBefore(j - 1)} |->
            EvaluatesOne(tla, lintFiles[i], resp[i])]

\* LintFileEvaluator.Evaluates: one result per lint file, in order.
Evaluates(tla, lintFiles, resp) ==
    [i \in 1..Len(lintFiles) |-> EvaluatesOne(tla, lintFiles[i], resp[i])]

-----------------------------------------------------------------------------
(* Controller: parseLintFiles, evaluate, lint, lintTarget, getResults. *)

\* Controller.parseLintFile: the node, or the error of ReadToNode.
parseLintFile(lintFile, unparsable) ==
    IF lintFile \in unparsable
    THEN [nil |-> TRUE, err |-> ErrReadJsonnet, Node |-> <<>>, Key |-> <<>>,
          Custom |-> NilMap]
    ELSE [nil |-> FALSE, err |-> ErrNone,
          Node |-> lintFile.Path,
          Key |-> IF lintFile.ModulePath # <<>> THEN lintFile.ModulePath
                  ELSE lintFile.Path,
          Custom |-> lintFile.Param]

\* A faulty variant of parseLintFiles: a lint file that does not parse is skipped.
RECURSIVE parseLintFilesSkipping(_, _)
parseLintFilesSkipping(lintFiles, unparsable) ==
    IF lintFiles = <<>> THEN [nodes |-> <<>>, err |-> ErrNone]
    ELSE LET node == parseLintFile(Head(lintFiles), unparsable)
             rest == parseLintFilesSkipping(Tail(lintFiles), unparsable)
         IN  IF node.err # ErrNone THEN rest
             ELSE [nodes |-> <<node>> \o rest.nodes, err |-> ErrNone]

\* Controller.parseLintFiles: every node, or the first error and no node.
RECURSIVE parseLintFiles(_, _)
parseLintFiles(lintFiles, unparsable) ==
    IF lintFiles = <<>> THEN [nodes |-> <<>>, err |-> ErrNone]
    ELSE LET node == parseLintFile(Head(lintFiles), unparsable)
             rest == parseLintFiles(Tail(lintFiles), unparsable)
         IN  IF node.err # ErrNone THEN [nodes |-> <<>>, err |-> node.err]
             ELSE IF rest.err # ErrNone THEN [nodes |-> <<>>, err |-> rest.err]
             ELSE [nodes |-> <<node>> \o rest.nodes, err |-> ErrNone]

\* Controller.readJsonnets, which lintTarget calls.
readJsonnets(lintFiles, unparsable) == parseLintFiles(lintFiles, unparsable)

\* The argument evaluateNode builds for one node.
NodeArg(data, ja) ==
    [Data |-> data, Custom |-> IF ja.Custom.nil THEN EmptyMap ELSE ja.Custom]

\* Controller.evaluateNode: a *JsonnetEvaluateResult.
evaluateNode(data, ja, resp) ==
    IF resp.k = "marshal_error"
    THEN [Key |-> ja.Key, Result |-> NoOutput, Error |-> ErrMarshal]
    ELSE IF resp.k = "eval_error"
    THEN [Key |-> ja.Key, Result |-> NoOutput, Error |-> ErrEngine]
    ELSE [Key |-> ja.Key, Result |-> resp.doc, Error |-> ErrNone]

\* Controller.evaluate: one result per node, in order.
evaluate(data, jsonnetAsts, resp) ==
    [i \in 1..Len(jsonnetAsts) |-> evaluateNode(data, jsonnetAsts[i], resp[i])]

\* Controller.parseResult: the *Result of a *JsonnetEvaluateResult.
ControllerParseResult(result) ==
    IF result.Error # ErrNone
    THEN Result(result.Key, NilFindings, NoOutput, NilAny, result.Error)
    ELSE LET p == parseResult(result.Result)
         IN  Result(result.Key, p.rs, result.Result, p.a, p.err)

\* Controller.parseDataFile: the data of the file, or an error.
parseDataFile(dataFile, undecodable) ==
    IF dataFile \in undecodable
    THEN [tla |-> NilData, err |-> ErrDataFile]
    ELSE [tla |-> DataOf(dataFile), err |-> ErrNone]

\* Controller.lint: the results of one data file, or the error of reading it.
\* resp[<<i, dataFile>>] is what the evaluation of node i on dataFile meets.
lint(dataFile, jsonnetAsts, undecodable, resp) ==
    LET d == parseDataFile(dataFile, undecodable)
        results_ == evaluate(d.tla, jsonnetAsts,
                             [i \in 1..Len(jsonnetAsts) |-> resp[<<i, dataFile>>]])
    IN  IF d.err # ErrNone THEN [rs |-> <<>>, err |-> d.err]
        ELSE [rs |-> [i \in DOMAIN results_ |-> ControllerParseResult(results_[i])],
              err |-> ErrNone]

\* The result map: a function from the data files it holds.
NoResults == [nil |-> TRUE, m |-> <<>>]
Put(m, k, v) == [x \in (DOMAIN m) \cup {k} |-> IF x = k THEN v ELSE m[x]]

FileResult(rs, err) == [Results |-> rs, Error |-> err]

\* A faulty variant of the loop of lintTarget: it returns at the first data file that
\* cannot be read.
RECURSIVE lintDataFilesStopping(_, _, _, _, _)
lintDataFilesStopping(dataFiles, jsonnetAsts, undecodable, resp, m) ==
    IF dataFiles = <<>> THEN m
    ELSE LET r == lint(Head(dataFiles), jsonnetAsts, undecodable, resp)
         IN  IF r.err # ErrNone
             THEN Put(m, Head(dataFiles), FileResult(<<>>, r.err))
             ELSE lintDataFilesStopping(Tail(dataFiles), jsonnetAsts, undecodable, resp,
                                        Put(m, Head(dataFiles), FileResult(r.rs, ErrNone)))

\* The loop of lintTarget over the data files of the target: each file's
\* FileResult is stored under the file's path.
RECURSIVE lintDataFiles(_, _, _, _, _)
lintDataFiles(dataFiles, jsonnetAsts, undecodable, resp, m) ==
    IF dataFiles = <<>> THEN m
    ELSE LET r == lint(Head(dataFiles), jsonnetAsts, undecodable, resp)
             fr == IF r.err # ErrNone THEN FileResult(<<>>, r.err)
                   ELSE FileResult(r.rs, ErrNone)
         IN  lintDataFiles(Tail(dataFiles), jsonnetAsts, undecodable, resp,
                           Put(m, Head(dataFiles), fr))

\* Controller.lintTarget: the result map after the target, or the error.
lintTarget(target, unparsable, undecodable, resp, m) ==
    LET parsed == readJsonnets(target.LintFiles, unparsable)
    IN  IF parsed.err # ErrNone THEN [m |-> m, err |-> parsed.err]
        ELSE [m |-> lintDataFiles(target.DataFiles, parsed.nodes, undecodable, resp, m),
              err |-> ErrNone]

\* The evaluations lintTarget makes, in order: every node on every data file
\* that could be read.
RECURSIVE CallsOf(_, _, _, _, _)
CallsOf(tn, dataFiles, jsonnetAsts, undecodable, resp) ==
    IF dataFiles = <<>> THEN <<>>
    ELSE LET df == Head(dataFiles)
             here == IF df \in undecodable THEN <<>>
                     ELSE [i \in 1..Len(jsonnetAsts) |->
                              [target |-> tn, rule |-> i, Key |-> jsonnetAsts[i].Key,
                               file |-> df, tla |-> NodeArg(DataOf(df), jsonnetAsts[i]),
                               resp |-> resp[<<i, df>>]]]
         IN  here \o CallsOf(tn, Tail(dataFiles), jsonnetAsts, undecodable, resp)

-----------------------------------------------------------------------------
(* Controller.Lint. *)

Target(lintFiles, dataFiles) == [LintFiles |-> lintFiles, DataFiles |-> dataFiles]

\* The targets a configuration may declare.
TargetSet ==
    {Target(<<LintFileA, LintFileB>>, <<FileX, FileY>>),
     Target(<<LintFileB>>, <<FileY>>),
     Target(<<LintFileA>>, <<FileX>>)}

\* The lists of targets findFiles may return: up to MaxTargets targets, in
\* the order of the configuration, each declared once.
TargetLists ==
    UNION {{ts \in [1..n -> TargetSet] : \A i, j \in 1..n : i # j => ts[i] # ts[j]} :
           n \in 0..MaxTargets}

\* errlevel.New: the level of a name, or an error for a name that is no level.
Levels == {"debug", "info", "warn", "error"}
ErrInvalidLevel == "the error level is invalid"
errlevelNew(name) ==
    IF name \in Levels THEN [level |-> name, err |-> ErrNone]
    ELSE [level |-> "", err |-> ErrInvalidLevel]

\* A faulty variant of getErrorLevel: a name that is no level falls back to the default.
getErrorLevelDefaulting(errorLevel) ==
    IF errorLevel \in Levels THEN [level |-> errorLevel, err |-> ErrNone]
    ELSE [level |-> "error", err |-> ErrNone]

\* Controller.getErrorLevel
getErrorLevel(errorLevel) ==
    IF errorLevel = "" THEN [level |-> "error", err |-> ErrNone]
    ELSE errlevelNew(errorLevel)

\* Controller.filterTargets: data files outside filePaths are dropped from
\* every target; the lint files are untouched.
SelectSeq2(s, keep) == SelectSeq(s, LAMBDA x : x \in keep)
filterTargets(ts, filePaths) ==
    [i \in 1..Len(ts) |->
        Target(ts[i].LintFiles, SelectSeq2(ts[i].DataFiles, Range(filePaths)))]

Thresholds == {"", "warn", "critical"}
FilePathChoices == {<<>>, <<FileY>>}

AllSteps == {"config", "modules", "install", "find", "level"}

LintIdle ==
    /\ pc = "idle"
    /\ param = [ErrorLevel |-> "", FilePaths |-> <<>>]
    /\ passed = {}
    /\ targets = <<>>
    /\ errLevel = ""
    /\ tIdx = 0
    /\ results = NoResults
    /\ lintErr = ErrNone
    /\ failedAt = ""
    /\ engineCalls = <<>>
    /\ decodeLog = {}
    /\ parseLog = {}
    /\ outputCalled = FALSE

LintInit ==
    /\ pc = "start"
    /\ param \in [ErrorLevel : Thresholds, FilePaths : FilePathChoices]
    /\ passed = {}
    /\ targets = <<>>
    /\ errLevel = ""
    /\ tIdx = 0
    /\ results = NoResults
    /\ lintErr = ErrNone
    /\ failedAt = ""
    /\ engineCalls = <<>>
    /\ decodeLog = {}
    /\ parseLog = {}
    /\ outputCalled = FALSE

\* Lint returns err from the step named.
Fail(step, err) ==
    /\ pc' = "failed"
    /\ lintErr' = err
    /\ failedAt' = step

\* c.findAndReadConfig(param.ConfigFilePath, cfg)
ReadConfig ==
    /\ pc = "start"
    /\ \/ /\ pc' = "config_read"
          /\ passed' = passed \cup {"config"}
          /\ UNCHANGED <<lintErr, failedAt>>
       \/ /\ Fail("config", "read a configuration file")
          /\ UNCHANGED passed
    /\ UNCHANGED <<param, targets, errLevel, tIdx, results, engineCalls, decodeLog,
                   parseLog, outputCalled>>
    /\ UNCHANGED <<pvars, entry, evars>>

\* module.ListModules(cfg)
ListModules ==
    /\ pc = "config_read"
    /\ \/ /\ pc' = "modules_listed"
          /\ passed' = passed \cup {"modules"}
          /\ UNCHANGED <<lintErr, failedAt>>
       \/ /\ Fail("modules", "list modules")
          /\ UNCHANGED passed
    /\ UNCHANGED <<param, targets, errLevel, tIdx, results, engineCalls, decodeLog,
                   parseLog, outputCalled>>
    /\ UNCHANGED <<pvars, entry, evars>>

\* c.installModules(ctx, logE, ..., modMap)
InstallModules ==
    /\ pc = "modules_listed"
    /\ \/ /\ pc' = "installed"
          /\ passed' = passed \cup {"install"}
          /\ UNCHANGED <<lintErr, failedAt>>
       \/ /\ Fail("install", "install modules")
          /\ UNCHANGED passed
    /\ UNCHANGED <<param, targets, errLevel, tIdx, results, engineCalls, decodeLog,
                   parseLog, outputCalled>>
    /\ UNCHANGED <<pvars, entry, evars>>

\* c.findFiles(cfg, modulesList, param.RootDir), then the filter of
\* param.FilePaths when there are any.
FindFiles ==
    /\ pc = "installed"
    /\ \/ /\ \E ts \in TargetLists :
                targets' = IF Len(param.FilePaths) > 0
                           THEN filterTargets(ts, param.FilePaths) ELSE ts
          /\ pc' = "found"
          /\ passed' = passed \cup {"find"}
          /\ UNCHANGED <<lintErr, failedAt>>
       \/ /\ Fail("find", "find files")
          /\ UNCHANGED <<passed, targets>>
    /\ UNCHANGED <<param, errLevel, tIdx, results, engineCalls, decodeLog, parseLog,
                   outputCalled>>
    /\ UNCHANGED <<pvars, entry, evars>>

\* c.getErrorLevel(param.ErrorLevel); on success getResults makes its map.
GetErrorLevel ==
    /\ pc = "found"
    /\ LET r == getErrorLevel(param.ErrorLevel)
       IN  IF r.err # ErrNone
           THEN /\ Fail("level", r.err)
                /\ UNCHANGED <<passed, errLevel, results>>
           ELSE /\ pc' = "linting"
                /\ errLevel' = r.level
                /\ passed' = passed \cup {"level"}
                /\ results' = [nil |-> FALSE, m |-> <<>>]
                /\ UNCHANGED <<lintErr, failedAt>>
    /\ UNCHANGED <<param, targets, tIdx, engineCalls, decodeLog, parseLog,
                   outputCalled>>
    /\ UNCHANGED <<pvars, entry, evars>>

\* One iteration of the loop of getResults: c.lintTarget(target, results). The
\* files that cannot be read and what each evaluation meets are the inputs.
LintTarget ==
    /\ pc = "linting"
    /\ tIdx < Len(targets)
    /\ LET target == targets[tIdx + 1]
       IN  \E unparsable \in SUBSET Range(target.LintFiles),
              undecodable \in SUBSET Range(target.DataFiles) :
             \E resp \in [(1..Len(target.LintFiles)) \X (Range(target.DataFiles) \ undecodable)
                          -> LintResponses] :
               LET r == lintTarget(target, unparsable, undecodable, resp, results.m)
               IN  /\ parseLog' = parseLog \cup
                          {<<tIdx + 1, lf.Path>> : lf \in unparsable}
                   /\ IF r.err # ErrNone
                      THEN /\ Fail("lint", r.err)
                           /\ results' = NoResults
                           /\ UNCHANGED <<tIdx, engineCalls, decodeLog>>
                      ELSE /\ results' = [nil |-> FALSE, m |-> r.m]
                           /\ tIdx' = tIdx + 1
                           /\ engineCalls' = engineCalls \o
                                  CallsOf(tIdx + 1, target.DataFiles,
                                          [i \in 1..Len(target.LintFiles) |->
                                              parseLintFile(target.LintFiles[i], {})],
                                          undecodable, resp)
                           /\ decodeLog' = decodeLog \cup
                                  {<<tIdx + 1, f, f \notin undecodable>> :
                                       f \in Range(target.DataFiles)}
                           /\ UNCHANGED <<pc, lintErr, failedAt>>
    /\ UNCHANGED <<param, passed, targets, errLevel, outputCalled>>
    /\ UNCHANGED <<pvars, entry, evars>>

\* getResults returns the map, and c.Output renders it.
Output ==
    /\ pc = "linting"
    /\ tIdx = Len(targets)
    /\ outputCalled' = TRUE
    /\ \/ /\ pc' = "done"
          /\ UNCHANGED <<lintErr, failedAt>>
       \/ Fail("output", "output the result")
    /\ UNCHANGED <<param, passed, targets, errLevel, tIdx, results, engineCalls,
                   decodeLog, parseLog>>
    /\ UNCHANGED <<pvars, entry, evars>>

-----------------------------------------------------------------------------
(* A call of Parses followed by a call of Evaluates. *)

LintFileLists == UNION {[1..n -> LintFiles] : n \in 0..MaxLintFiles}

TopLevelArgments ==
    [Data : {DataOf(FileX), DataOf(FileY)},
     CombinedData : {NilCombined, CombinedOf(<<FileX, FileY>>)}]

NoTla == [Data |-> NilData, CombinedData |-> NilCombined]

EvalIdle ==
    /\ evpc = "idle"
    /\ evLintFiles = <<>>
    /\ evTla = NoTla
    /\ evNodes = <<>>
    /\ evErr = ErrNone
    /\ evArgs = <<>>
    /\ evResp = <<>>
    /\ evResults = <<>>

EvalInit ==
    /\ evpc = "start"
    /\ evLintFiles \in LintFileLists
    /\ evTla \in TopLevelArgments
    /\ evNodes = <<>>
    /\ evErr = ErrNone
    /\ evArgs = <<>>
    /\ evResp = <<>>
    /\ evResults = <<>>

\* p.Parses(lintFiles)
ParsesCall ==
    /\ evpc = "start"
    /\ \E unparsable \in SUBSET Range(evLintFiles) :
         LET r == Parses(evLintFiles, unparsable)
         IN  /\ evNodes' = r.nodes
             /\ evErr' = r.err
             /\ evpc' = IF r.err # ErrNone THEN "parse_failed" ELSE "parsed"
    /\ UNCHANGED <<evLintFiles, evTla, evArgs, evResp, evResults>>
    /\ UNCHANGED <<pvars, entry, lvars>>

\* le.Evaluates(tla, nodes)
EvaluatesCall ==
    /\ evpc = "parsed"
    /\ \E resp \in [1..Len(evNodes) -> EvalResponses] :
         /\ evResults' = Evaluates(evTla, evNodes, resp)
         /\ evArgs' = [i \in 1..Len(evNodes) |-> EvaluateArg(evTla, evNodes[i])]
         /\ evResp' = resp
    /\ evpc' = "evaluated"
    /\ UNCHANGED <<evLintFiles, evTla, evNodes, evErr>>
    /\ UNCHANGED <<pvars, entry, lvars>>

-----------------------------------------------------------------------------
(* The specifications. *)

ParseIdle ==
    /\ ppc = "idle"
    /\ shape = [prefix |-> <<>>, host |-> GithubCom, segs |-> 0, at |-> FALSE,
                ref |-> MixedHash, hasTag |-> FALSE, tag |-> <<>>, suffix |-> <<>>]
    /\ lineIn = <<>>
    /\ parseOut = NoOut
    /\ prevLine = <<>>
    /\ prevOut = NoOut

ParseInit ==
    /\ ppc = "ready"
    /\ shape \in {s \in Shapes : Canonical(s)}
    /\ lineIn = LineOf(shape)
    /\ parseOut = NoOut
    /\ prevLine = <<>>
    /\ prevOut = NoOut

\* A call of ParseModuleLine on the current line.
ParseModuleLineCall ==
    /\ ppc = "ready"
    /\ parseOut' = ParseModuleLine(lineIn)
    /\ ppc' = "parsed"
    /\ UNCHANGED <<shape, lineIn, prevLine, prevOut>>
    /\ UNCHANGED <<entry, lvars, evars>>

\* The configuration is edited: the line gets the exclusion mark '!' in front,
\* and is parsed again.
ExcludeLine ==
    /\ ppc = "parsed"
    /\ prevLine' = lineIn
    /\ prevOut' = parseOut
    /\ lineIn' = <<"!">> \o lineIn
    /\ parseOut' = ParseModuleLine(<<"!">> \o lineIn)
    /\ ppc' = "excluded"
    /\ UNCHANGED shape
    /\ UNCHANGED <<entry, lvars, evars>>

\* The module-line parser of pkg/config.
ParseStart == ParseInit /\ entry = "ParseModuleLine" /\ LintIdle /\ EvalIdle

ParseNext == ParseModuleLineCall \/ ExcludeLine

ParseSpec == ParseStart /\ [][ParseNext]_vars

\* The controller of pkg/controller/lint: a run of Lint, or a call of Parses
\* and Evaluates.
Init ==
    /\ ParseIdle
    /\ \/ entry = "Lint" /\ LintInit /\ EvalIdle
       \/ entry = "Evaluates" /\ LintIdle /\ EvalInit

Next ==
    \/ ReadConfig
    \/ ListModules
    \/ InstallModules
    \/ FindFiles
    \/ GetErrorLevel
    \/ LintTarget
    \/ Output
    \/ ParsesCall
    \/ EvaluatesCall

Spec == Init /\ [][Next]_vars

-----------------------------------------------------------------------------
(* The claims about ParseModuleLine, checked under ParseSpec. *)

\* The ref of a line as the reader sees it: the text between the first '@'
\* and the first ':' after it.
RefText(line) == Cut(Cut(TrimSpace(line), "@").after, ":").before

\* A ref that is exactly HashLen hexadecimal characters.
IsFullHash(ref) == Len(ref) = HashLen /\ AllHex(ref)

\* A ref of 39 or 41 hex characters, or one with a character that is not hex.
IsBadRef(ref) ==
    \/ AllHex(ref) /\ Len(ref) \in {HashLen - 1, HashLen + 1}
    \/ ~AllHex(ref)

\* The line has the host, an owner, a repository, a path and a ref.
ReachesRefCheck(s) == s.host = GithubCom /\ s.segs >= 1 /\ s.at

\* C2: every line whose ref has 39 or 41 hex characters, or holds a
\* character that is not hex, is rejected with the ref error and no module.
C2_BadRefRejected ==
    (ppc = "parsed" /\ ReachesRefCheck(shape) /\ IsBadRef(RefText(lineIn)))
        => (parseOut.err = ErrRef /\ parseOut.mg.nil)

\* 'github.com/<owner>/<repo>/<path>@<ref>[:<tag>]' with a 40-hex ref.
WellFormed(s) ==
    /\ s.prefix = <<>>
    /\ s.suffix = <<>>
    /\ ReachesRefCheck(s)
    /\ IsFullHash(s.ref)

\* The fields of the module but the slash path, for a well-formed line.
FieldsAsWritten(s, out) ==
    /\ out.err = ErrNone
    /\ ~out.mg.nil
    /\ out.mg.ID = LineOf(s)
    /\ out.mg.Archive.Host = GithubCom
    /\ out.mg.Archive.RepoOwner = Owner
    /\ out.mg.Archive.RepoName = Repo
    /\ out.mg.Archive.Ref = s.ref
    /\ out.mg.Archive.Tag = s.tag
    /\ ~out.mg.Excluded

\* C6, as claimed: a well-formed line gives host, owner, repo, ref and tag as
\* written, and the slash path '<owner>/<repo>/<ref>/<path>'.
C6_SlashPathWithoutHost ==
    (ppc = "parsed" /\ WellFormed(shape))
        => /\ FieldsAsWritten(shape, parseOut)
           /\ parseOut.mg.SlashPath = Join(<<Owner, Repo, shape.ref, PathOf(shape)>>, "/")

\* C6, amended: a well-formed line gives host, owner, repo, ref and tag as
\* written, and the slash path 'github.com/<owner>/<repo>/<ref>/<path>'; the
\* path may hold '/'.
C6_FieldsAndSlashPath ==
    (ppc = "parsed" /\ WellFormed(shape))
        => /\ FieldsAsWritten(shape, parseOut)
           /\ parseOut.mg.SlashPath =
                  Join(<<GithubCom, Owner, Repo, shape.ref, PathOf(shape)>>, "/")

\* C6, witness: a well-formed line with a two-segment path and a tag was parsed.
C6_Witness ==
    /\ ppc = "parsed"
    /\ WellFormed(shape)
    /\ shape.segs = 2
    /\ shape.hasTag
    /\ parseOut.err = ErrNone
    /\ parseOut.mg.Archive.Tag = <<"v", "1">>

\* The line carries no exclusion mark.
NotExcluded(line) == ~HasPrefix(TrimSpace(line), <<"!">>)

\* C9: when a line L without a leading '!' is accepted, '!' + L is accepted
\* too, with excluded = true and every other field as for L, for which
\* excluded = false; and when L is rejected, so is '!' + L.
C9_ExclusionMarkOnlySetsExcluded ==
    (ppc = "excluded" /\ NotExcluded(prevLine))
        => /\ prevOut.err = ErrNone =>
                  /\ parseOut.err = ErrNone
                  /\ ~prevOut.mg.Excluded
                  /\ parseOut.mg.Excluded
                  /\ parseOut.mg = [prevOut.mg EXCEPT !.Excluded = TRUE]
           /\ prevOut.err # ErrNone => parseOut.err # ErrNone /\ parseOut.mg.nil

\* C9, witness: an accepted line, written with a space in front, was parsed
\* again with the '!' and came back excluded.
C9_Witness ==
    /\ ppc = "excluded"
    /\ NotExcluded(prevLine)
    /\ shape.prefix = <<" ">>
    /\ prevOut.err = ErrNone
    /\ parseOut.err = ErrNone
    /\ parseOut.mg.Excluded

-----------------------------------------------------------------------------
(* The claims about the evaluator and the controller, checked under Spec. *)

\* The key of the outcomes of a lint file of the controller.
KeyOf(lintFile) ==
    IF lintFile.ModulePath # <<>> THEN lintFile.ModulePath ELSE lintFile.Path

\* A later target, already linted, holds the data file again.
LintedAgain(tn, file) ==
    \E later \in (tn + 1)..tIdx : file \in Range(targets[later].DataFiles)

\* The outcome says what the evaluation met.
OutcomeReflects(outcome, key, resp) ==
    /\ outcome.LintFile = key
    /\ resp.k # "ok" => outcome.Error # ErrNone
    /\ resp.k # "ok" => outcome.RawResult.nil /\ outcome.Interface.nil
    /\ resp.k = "ok" => outcome.RawOutput = resp.doc

\* C1, for Evaluates: one outcome per rule, in rule order, with the rule's
\* key; a rule whose evaluation failed has an error, and the others have
\* their own outcome.
C1_EvaluatesIsolates ==
    evpc = "evaluated"
        => /\ DOMAIN evResults = 1..Len(evNodes)
           /\ \A i \in 1..Len(evNodes) :
                  OutcomeReflects(evResults[i], evNodes[i].Key, evResp[i])

\* C1, for lintTarget: every evaluation of a rule on a data file, failed or
\* not, has its outcome in the result map, at the rule's place in the file's
\* list, as long as the map is there and no later target held the file again.
C1_LintTargetIsolates ==
    (entry = "Lint" /\ ~results.nil)
        => \A n \in 1..Len(engineCalls) :
              LET c == engineCalls[n]
                  rules == targets[c.target].LintFiles
              IN  ~LintedAgain(c.target, c.file)
                      => /\ c.file \in DOMAIN results.m
                         /\ results.m[c.file].Error = ErrNone
                         /\ DOMAIN results.m[c.file].Results = 1..Len(rules)
                         /\ OutcomeReflects(results.m[c.file].Results[c.rule],
                                            KeyOf(rules[c.rule]), c.resp)

\* C1: a failed evaluation of rule A on file X keeps neither rule B on X nor
\* rule A on file Y from its outcome, and all are in the result map.
C1_FailureIsolation == C1_EvaluatesIsolates /\ C1_LintTargetIsolates

\* C1, witness: Lint is done for one target of two rules and two files where
\* rule 1 failed on x.json only, and the three outcomes are in the map.
C1_Witness ==
    /\ entry = "Lint"
    /\ pc = "done"
    /\ Len(targets) = 1
    /\ targets[1].DataFiles = <<FileX, FileY>>
    /\ Len(targets[1].LintFiles) = 2
    /\ DOMAIN results.m = {FileX, FileY}
    /\ Len(results.m[FileX].Results) = 2
    /\ Len(results.m[FileY].Results) = 2
    /\ results.m[FileX].Results[1].Error = ErrEngine
    /\ results.m[FileX].Results[2].Error = ErrNone
    /\ results.m[FileY].Results[1].Error = ErrNone

\* Something of the evaluation or of the output has happened.
EvaluationStarted ==
    \/ engineCalls # <<>>
    \/ decodeLog # {}
    \/ parseLog # {}
    \/ tIdx > 0
    \/ ~results.nil
    \/ outputCalled

\* C3: evaluation and output start only after the configuration was read,
\* the modules listed and installed, the targets found and the threshold
\* validated; when one of these fails, and so when the threshold is a
\* non-empty string that is no level, Lint returns an error and nothing was
\* evaluated.
C3_NoEvaluationBeforeSetup ==
    entry = "Lint"
        => /\ EvaluationStarted => passed = AllSteps
           /\ pc \in {"linting", "done"} => passed = AllSteps
           /\ failedAt \in AllSteps =>
                  pc = "failed" /\ lintErr # ErrNone /\ ~EvaluationStarted
           /\ (param.ErrorLevel # "" /\ param.ErrorLevel \notin Levels) =>
                  /\ ~EvaluationStarted
                  /\ pc \notin {"linting", "done"}
                  /\ "find" \in passed => pc = "found" \/ failedAt = "level"

\* C3, witness: targets with data files were found, the threshold was
\* "critical", and Lint failed at the threshold with nothing evaluated.
C3_Witness ==
    /\ entry = "Lint"
    /\ pc = "failed"
    /\ failedAt = "level"
    /\ param.ErrorLevel = "critical"
    /\ lintErr = ErrInvalidLevel
    /\ Len(targets) = 2
    /\ targets[1].DataFiles # <<>>
    /\ engineCalls = <<>>

IsJson(doc) == doc.k \notin {"invalid", "empty"}

\* The document is an array of finding objects: each element an object with
\* a message string and, when it has a level, a level string.
IsFindingArray(doc) ==
    /\ doc.k = "array"
    /\ \A i \in 1..Len(doc.elems) :
          /\ doc.elems[i].k = "object"
          /\ doc.elems[i].message.t = "string"
          /\ doc.elems[i].level.t \in {"absent", "string"}

\* The document is JSON that does not fit a list of findings: not null and
\* no array, or an array with an element that is neither null nor an object,
\* or with a message or level that is no string.
IsShapeMismatch(doc) ==
    \/ IsJson(doc) /\ doc.k \notin {"null", "array"}
    \/ /\ doc.k = "array"
       /\ \E i \in 1..Len(doc.elems) :
             \/ doc.elems[i].k \notin {"null", "object"}
             \/ doc.elems[i].message.t \notin {"absent", "string"}
             \/ doc.elems[i].level.t \notin {"absent", "string"}

\* The outcome of a shape mismatch: an error, the untyped value and the raw
\* output kept, no findings.
MismatchOutcome(outcome, doc) ==
    /\ outcome.Error # ErrNone
    /\ outcome.Interface = [nil |-> FALSE, v |-> doc]
    /\ outcome.RawOutput = doc
    /\ outcome.RawResult.nil

\* The document is an array that decodes into a list of findings: each
\* element null, or an object whose message and level, when it has them, are
\* strings.
DecodesAsFindings(doc) ==
    /\ doc.k = "array"
    /\ \A i \in 1..Len(doc.elems) :
          /\ doc.elems[i].k \in {"null", "object"}
          /\ doc.elems[i].message.t \in {"absent", "string"}
          /\ doc.elems[i].level.t \in {"absent", "string"}

\* The outcome of an array that decodes: one finding per element (none for
\* null, an empty message or level for a missing one), the untyped value, no
\* error.
FindingsOutcome(outcome, doc) ==
    /\ outcome.Error = ErrNone
    /\ outcome.Interface = [nil |-> FALSE, v |-> doc]
    /\ outcome.RawOutput = doc
    /\ ~outcome.RawResult.nil
    /\ Len(outcome.RawResult.list) = Len(doc.elems)
    /\ \A j \in 1..Len(doc.elems) :
          /\ outcome.RawResult.list[j].nil = (doc.elems[j].k = "null")
          /\ outcome.RawResult.list[j].Message = doc.elems[j].message.s
          /\ outcome.RawResult.list[j].Level = doc.elems[j].level.s

\* C7, as claimed: output that is JSON but no array of finding objects gives
\* an outcome with an error, the untyped value, the raw output and no
\* findings; an array of finding objects gives the findings and no error.
C7_EveryNonFindingOutputIsAnError ==
    evpc = "evaluated"
        => \A i \in 1..Len(evNodes) :
              evResp[i].k = "ok"
                  => /\ (IsJson(evResp[i].doc) /\ ~IsFindingArray(evResp[i].doc))
                            => MismatchOutcome(evResults[i], evResp[i].doc)
                     /\ IsFindingArray(evResp[i].doc)
                            => FindingsOutcome(evResults[i], evResp[i].doc)

\* C7, amended: output that is JSON and does not decode into a list of
\* findings (not null and no array, or an array with an element that is
\* neither null nor an object, or with a message or level that is no string)
\* gives an outcome with an error, the untyped value, the raw output and no
\* findings; an array that decodes, and so every array of finding objects,
\* gives the findings, the untyped value and no error; null gives no error,
\* no findings and no value.
C7_ShapeMismatchKeepsValue ==
    evpc = "evaluated"
        => \A i \in 1..Len(evNodes) :
              evResp[i].k = "ok"
                  => /\ IsShapeMismatch(evResp[i].doc)
                            => MismatchOutcome(evResults[i], evResp[i].doc)
                     /\ DecodesAsFindings(evResp[i].doc)
                            => FindingsOutcome(evResults[i], evResp[i].doc)
                     /\ evResp[i].doc = DocNull
                            => /\ evResults[i].Error = ErrNone
                               /\ evResults[i].RawResult.nil
                               /\ evResults[i].Interface.nil

\* C7, witness: one rule returned an object and another an array of findings.
C7_Witness ==
    /\ evpc = "evaluated"
    /\ Len(evNodes) = 2
    /\ evResp[1] = RespOk(DocObject)
    /\ evResults[1].Error = ErrUnmarshal
    /\ ~evResults[1].Interface.nil
    /\ evResp[2] = RespOk(DocFindings)
    /\ Len(evResults[2].RawResult.list) = 2

\* C8: a data file that cannot be read gets a FileResult with the error and
\* no outcomes, no rule is evaluated on it, the other data files of the
\* target are linted all the same, and lintTarget returns no error for it.
C8_UnreadableDataFileIsLocal ==
    (entry = "Lint" /\ ~results.nil)
        => /\ \A d \in decodeLog :
                  ~LintedAgain(d[1], d[2])
                      => /\ d[2] \in DOMAIN results.m
                         /\ ~d[3] => /\ results.m[d[2]].Error = ErrDataFile
                                     /\ results.m[d[2]].Results = <<>>
                                     /\ \A n \in 1..Len(engineCalls) :
                                           ~(engineCalls[n].target = d[1]
                                             /\ engineCalls[n].file = d[2])
                         /\ d[3] => /\ results.m[d[2]].Error = ErrNone
                                    /\ Len(results.m[d[2]].Results)
                                           = Len(targets[d[1]].LintFiles)
           /\ lintErr # ErrDataFile

\* C8, witness: x.json could not be read, y.yaml after it was linted by both
\* rules, and Lint is done.
C8_Witness ==
    /\ entry = "Lint"
    /\ pc = "done"
    /\ lintErr = ErrNone
    /\ Len(targets) = 1
    /\ targets[1].DataFiles = <<FileX, FileY>>
    /\ <<1, FileX, FALSE>> \in decodeLog
    /\ <<1, FileY, TRUE>> \in decodeLog
    /\ results.m[FileX].Error = ErrDataFile
    /\ Len(results.m[FileY].Results) = 2

\* The evaluations of the run made on the data file.
CallsOn(file) == {n \in 1..Len(engineCalls) : engineCalls[n].file = file}

\* C10: when getResults is through, the map holds one FileResult per data
\* file of the targets, and the FileResult of a file holds the outcome of
\* every (rule, data file) pair of every target with the file.
C10_OutcomesOfEveryTargetKept ==
    (entry = "Lint" /\ pc = "done")
        => /\ DOMAIN results.m =
                  UNION {Range(targets[tn].DataFiles) : tn \in 1..Len(targets)}
           /\ \A f \in DOMAIN results.m :
                  /\ Len(results.m[f].Results) = Cardinality(CallsOn(f))
                  /\ \A n \in CallsOn(f) :
                        \E j \in 1..Len(results.m[f].Results) :
                            results.m[f].Results[j].LintFile = engineCalls[n].Key

====
